---- MODULE Spec2Model ----
(***************************************************************************)
(* rss_ssh: the connect command.  Session building (alias lookup,          *)
(* connection-string parsing, TCP connect, handshake, key or password      *)
(* authentication) followed by the interactive shell loop.                 *)
(*                                                                         *)
(* The repository holds the connect path twice: create_session and         *)
(* handle_interactive_shell in src/src/ssh.rs, and handle_connect in       *)
(* src/src/main.rs.  The variable `variant` says which of the two runs.    *)
(***************************************************************************)
EXTENDS Integers, Sequences, FiniteSets, TLC

\* ---------------------------------------------------------------- bounds
\* Longest connection string stored in the alias store.
MaxLen == 3
\* Chunks of remote output the channel yields before the model stops
\* producing data.
MaxChunks == 2
\* Longest file transferred, in bytes.
MaxFile == 3
\* Most bytes one read of the copy loop returns.
BufLen == 2

\* ------------------------------------------------------------ value sets
Variants == {"ssh", "main"}
Aliases == {"box"}
Alphabet == {"u", "h", "@"}
Secrets == {"s3cret", "typed"}

RECURSIVE StringsOfLen(_)
StringsOfLen(n) ==
    IF n = 0 THEN {<<>>}
    ELSE {Append(s, c) : s \in StringsOfLen(n - 1), c \in Alphabet}

ConnStrings == UNION {StringsOfLen(n) : n \in 0..MaxLen}

\* A HashMap<String, String>: a function on the set of keys present.
Maps(K, V) == UNION {[D -> V] : D \in SUBSET K}
EmptyMap == [x \in {} |-> <<>>]

VARIABLES
    variant,      \* which copy of the connect code runs
    config,       \* Config.connections: alias -> connection string
    vault,        \* the keychain entries of service "rssh": alias -> secret
    alias,        \* argument: the alias to connect to
    identity,     \* argument: identity_path.is_some()
    pc,           \* position in the running function
    conn_str,     \* local: the stored connection string
    user,         \* local: parts[0]
    host,         \* local: parts[1]
    tcp,          \* the TcpStream: "none" | "open" | "closed"
    sess,         \* the Session: "none" | "new" | "handshaken" | "authed" | "dropped"
    attempts,     \* local: the key path's attempt counter
    authErr,      \* local: the reason of the failed passphrase-less attempt
    password,     \* local: the password about to be used
    authLog,      \* every userauth_* call issued to the transport, in order
    prompts,      \* every prompt shown to the user, in order
    vaultWrites,  \* every set_password call that succeeded, in order
    vault0,       \* the keychain entries when the command started
    sessResult,   \* outcome of session building: "none" | "Ok" | an error kind
    rawMode,      \* the local terminal is in raw mode
    blocking,     \* the session's blocking flag
    event,        \* the local event taken in the current loop iteration
    sent,         \* the bytes given to the channel for that event
    accepted,     \* the bytes of that event the channel has taken
    received,     \* the chunks channel.read has returned, in order
    display,      \* the chunks written to stdout, in order
    exitCause,    \* why 'main_loop was left: "none" | "eof" | "read_error"
    shellResult,  \* outcome of the shell: "none" | "Ok" | an error kind
    xfer,         \* the transfer running: "none" | "upload" | "download"
    localPath,    \* argument: the local file (upload) or directory (download)
    remotePath,   \* argument: the remote directory (upload) or file (download)
    localKind,    \* what localPath is on disk: "file" | "dir" | "absent"
    src,          \* the bytes of the source file
    srcOpen,      \* the source file has been opened
    sftp,         \* the SFTP subsystem has been opened
    dirMade,      \* create_dir_all(local_dir) has run
    destPath,     \* the path the destination file was created at
    dest,         \* the destination file: [exists, data]
    total,        \* the length the progress bar was created with
    progress,     \* the bytes the progress bar has counted
    pos,          \* the read offset in the source
    wrote,        \* every byte a write to the destination has taken, in order
    xferResult,   \* outcome of the transfer: "none" | "Ok" | an error kind
    disk,         \* the persisted alias store (config.json)
    diskValid,    \* config.json holds a complete document
    disk0,        \* the persisted alias store when the command started
    cmd,          \* the command line: [name, alias, conn]
    saved,        \* config.save() in this command: "none" | "ok" | "failed"
    vaultDelete,  \* the keychain's answer to this command's deletion
    cmdResult,    \* outcome of the command: "none" | "Ok" | an error kind
    enteredFor    \* alias -> the target its keychain entry was entered for

\* The variables session building works on (pc, tcp and sess are shared).
sessVars == <<config, vault, alias, identity, conn_str, user, host, attempts,
              authErr, password, authLog, prompts, vaultWrites, vault0,
              sessResult>>

sessVarsButResult == <<config, vault, alias, identity, conn_str, user, host,
                       attempts, authErr, password, authLog, prompts,
                       vaultWrites, vault0>>

\* The variables the interactive shell works on.
shellVars == <<rawMode, blocking, event, sent, accepted, received, display, exitCause,
               shellResult>>

\* The variables a file transfer works on.
xferVars == <<xfer, localPath, remotePath, localKind, src, srcOpen, sftp,
              dirMade, destPath, dest, total, progress, pos, wrote,
              xferResult>>

\* The variables the alias store commands work on.
storeCmdVars == <<disk, diskValid, disk0, cmd, saved, vaultDelete, cmdResult>>
storeVars == <<storeCmdVars, enteredFor>>

vars == <<variant, pc, tcp, sess, sessVars, shellVars, xferVars, storeVars>>

\* ------------------------------------------------------- pure functions

\* str::split('@'): the pieces between separators, one more than the
\* number of separators (an empty string gives one empty piece).
RECURSIVE Split(_)
Split(s) ==
    IF \A i \in 1..Len(s) : s[i] # "@" THEN <<s>>
    ELSE LET i == CHOOSE k \in 1..Len(s) :
                      s[k] = "@" /\ \A j \in 1..(k - 1) : s[j] # "@"
         IN <<SubSeq(s, 1, i - 1)>> \o Split(SubSeq(s, i + 1, Len(s)))

\* `if parts.len() != 2 { return Err(...) }`
ParseOk(s) == Len(Split(s)) = 2
ParseUser(s) == Split(s)[1]
ParseHost(s) == Split(s)[2]

\* What the keyring may answer to entry.get_password(): the secret when the
\* entry is there and can be read, NoEntry when it is not there, another
\* error (a locked or unreachable keychain, Entry::new failing) either way.
GetPasswordAnswers(v, a) ==
    IF a \in DOMAIN v THEN {"found", "failed"} ELSE {"no_entry", "failed"}

\* `match get_password(alias) { Ok(pass) => pass, Err(_) => { prompt } }`:
\* every error, not only a missing entry, takes the prompting arm.
GetPasswordOk(answer) == answer = "found"

\* credentials::set_password: the entry of `a` becomes `p`.
VaultSet(v, a, p) == [x \in (DOMAIN v) \cup {a} |-> IF x = a THEN p ELSE v[x]]

\* An early return that leaves the TcpStream as it is.
DropTcpLeak(t) == t

\* Scope exit on an early return: the owned TcpStream is closed with the
\* value that owns it (the local `tcp`, or the Session it was moved into).
DropTcp(t) == IF t = "open" THEN "closed" ELSE t
DropSess(s) == IF s = "none" THEN "none" ELSE "dropped"

\* The retry condition without the test of the failure reason.
MayPromptAny(r, n) == n < 1

\* `if e.to_string().contains("passphrase") && attempts < 1`
MayPrompt(r, n) == r = "passphrase" /\ n < 1

\* After a failed passphrase attempt: ssh.rs does `attempts += 1` and goes
\* round the loop again; main.rs falls through to `return Err(..)`.
AfterPassphraseFailure(v) == IF v = "ssh" THEN "key_auth" ELSE "fail"

\* After the password prompt: ssh.rs asks whether to save the password,
\* main.rs saves it without asking.
AfterPasswordPrompt(v) == IF v = "ssh" THEN "confirm_save" ELSE "set_password"

\* ------------------------------------------------------ local key events
\* crossterm::event::KeyEvent: kind, code and modifiers.  Characters are
\* Unicode scalar values.
KeyKinds == {"Press", "Release", "Repeat"}
Chars == {32, 65, 96, 97, 122, 123, 321}
NamedKeys == {"Enter", "Backspace", "Left", "Right", "Up", "Down", "Tab",
              "Esc", "Home", "F1"}
KeyCodes == {[name |-> "Char", c |-> c] : c \in Chars}
            \cup {[name |-> n, c |-> 0] : n \in NamedKeys}
Modifiers == SUBSET {"CONTROL", "ALT"}

NoEvent == [type |-> "None", kind |-> "None",
            code |-> [name |-> "None", c |-> 0], mods |-> {}]
KeyEventOf(k, code, mods) ==
    [type |-> "Key", kind |-> k, code |-> code, mods |-> mods]
OtherEventOf(t) ==
    [type |-> t, kind |-> "None", code |-> [name |-> "None", c |-> 0],
     mods |-> {}]

\* `c as u8`: a char cast keeps the low eight bits of the scalar value.
AsU8(c) == c % 256

\* The `match key_event.code` that fills key_bytes.
KeyBytes(code, mods) ==
    IF code.name = "Char"
    THEN IF "CONTROL" \in mods
         THEN IF 97 <= code.c /\ code.c <= 122
              THEN <<AsU8(code.c) - 97 + 1>>
              ELSE <<>>
         ELSE <<AsU8(code.c)>>
    ELSE CASE code.name = "Enter" -> <<13>>
           [] code.name = "Backspace" -> <<8>>
           [] code.name = "Left" -> <<27, 91, 68>>
           [] code.name = "Right" -> <<27, 91, 67>>
           [] code.name = "Up" -> <<27, 91, 65>>
           [] code.name = "Down" -> <<27, 91, 66>>
           [] code.name = "Tab" -> <<9>>
           [] code.name = "Esc" -> <<27>>
           [] OTHER -> <<>>

\* ------------------------------------------------------------- actions

\* No transfer is running.
XferIdle ==
    /\ xfer = "none"
    /\ localPath = <<>>
    /\ remotePath = <<>>
    /\ localKind = "absent"
    /\ src = <<>>
    /\ srcOpen = FALSE
    /\ sftp = FALSE
    /\ dirMade = FALSE
    /\ destPath = <<>>
    /\ dest = [exists |-> FALSE, data |-> <<>>]
    /\ total = 0
    /\ progress = 0
    /\ pos = 0
    /\ wrote = <<>>
    /\ xferResult = "none"

\* main has parsed the command line of command `name` and loaded the alias
\* store into `config`.
StoreLoaded(name) ==
    /\ disk = config
    /\ diskValid = TRUE
    /\ disk0 = disk
    /\ cmd = [name |-> name, alias |-> alias, conn |-> <<>>]
    /\ enteredFor = EmptyMap
    /\ saved = "none"
    /\ vaultDelete = "none"
    /\ cmdResult = "none"

\* The state when the connect command starts: any stored configuration and
\* keychain content, any arguments, nothing opened yet.
Init ==
    /\ variant \in Variants
    /\ config \in Maps(Aliases, ConnStrings)
    /\ vault \in Maps(Aliases, Secrets)
    /\ vault0 = vault
    /\ alias \in Aliases
    /\ identity \in BOOLEAN
    /\ pc = "lookup"
    /\ conn_str = <<>>
    /\ user = <<>>
    /\ host = <<>>
    /\ tcp = "none"
    /\ sess = "none"
    /\ attempts = 0
    /\ authErr = "none"
    /\ password = "none"
    /\ authLog = <<>>
    /\ prompts = <<>>
    /\ vaultWrites = <<>>
    /\ sessResult = "none"
    /\ rawMode = FALSE
    /\ blocking = TRUE
    /\ event = NoEvent
    /\ sent = <<>>
    /\ accepted = <<>>
    /\ received = <<>>
    /\ display = <<>>
    /\ exitCause = "none"
    /\ shellResult = "none"
    /\ XferIdle
    /\ StoreLoaded("connect")

\* An early `return Err(..)` / `?` out of session building.
ReturnErr(e) ==
    /\ pc' = "done"
    /\ sessResult' = e
    /\ tcp' = DropTcp(tcp)
    /\ sess' = DropSess(sess)

\* The next statement is reached: nothing is returned, nothing is dropped.
Goto(l) ==
    /\ pc' = l
    /\ UNCHANGED <<tcp, sess, sessResult>>

\* config.connections.get(alias).context(..)?
LookupAlias ==
    /\ pc = "lookup"
    /\ IF alias \in DOMAIN config
       THEN /\ conn_str' = config[alias]
            /\ Goto("parse")
       ELSE /\ ReturnErr("AliasNotFound")
            /\ UNCHANGED conn_str
    /\ UNCHANGED <<variant, xferVars, storeVars, config, vault, vault0, alias, identity, user, host,
                   attempts, authErr, password, authLog, prompts, vaultWrites,
                   shellVars>>

\* conn_str.split('@'); parts.len() != 2 => Err; user = parts[0]; host = parts[1]
ParseConnStr ==
    /\ pc = "parse"
    /\ IF ParseOk(conn_str)
       THEN /\ user' = ParseUser(conn_str)
            /\ host' = ParseHost(conn_str)
            /\ Goto("tcp")
       ELSE /\ ReturnErr("InvalidConnectionString")
            /\ UNCHANGED <<user, host>>
    /\ UNCHANGED <<variant, xferVars, storeVars, config, vault, vault0, alias, identity, conn_str,
                   attempts, authErr, password, authLog, prompts, vaultWrites,
                   shellVars>>

\* TcpStream::connect(format!("{}:{}", host, port)).context(..)?
\* An address with an empty host part does not resolve; any other host may
\* or may not accept the connection.
TcpConnect ==
    /\ pc = "tcp"
    /\ \E ok \in (IF host = <<>> THEN {FALSE} ELSE BOOLEAN) :
         IF ok
         THEN /\ tcp' = "open"
              /\ pc' = "sess_new"
              /\ UNCHANGED <<sess, sessResult>>
         ELSE ReturnErr("ConnectFailed")
    /\ UNCHANGED <<variant, xferVars, storeVars, sessVarsButResult, shellVars>>

\* Session::new()?; sess.set_tcp_stream(tcp)
SessionNew ==
    /\ pc = "sess_new"
    /\ \E ok \in BOOLEAN :
         IF ok
         THEN /\ sess' = "new"
              /\ pc' = "handshake"
              /\ UNCHANGED <<tcp, sessResult>>
         ELSE ReturnErr("SessionInitFailed")
    /\ UNCHANGED <<variant, xferVars, storeVars, sessVarsButResult, shellVars>>

\* sess.handshake()?; then `if let Some(private_key_path) = identity_path`
Handshake ==
    /\ pc = "handshake"
    /\ \E ok \in BOOLEAN :
         IF ok
         THEN /\ sess' = "handshaken"
              /\ pc' = IF identity THEN "key_auth" ELSE "get_password"
              /\ UNCHANGED <<tcp, sessResult>>
         ELSE ReturnErr("HandshakeFailed")
    /\ UNCHANGED <<variant, xferVars, storeVars, sessVarsButResult, shellVars>>

\* An authentication call returned Ok: the loop is left (`break`), or the
\* `?` lets the function go on.
Authenticated ==
    /\ sess' = "authed"
    /\ pc' = "connected"
    /\ UNCHANGED <<tcp, sessResult>>

\* One userauth_* call as the transport saw it, and what it answered.
AuthCall(m, s, r) ==
    [method |-> m, peer |-> host, user |-> user, secret |-> s, result |-> r]

\* sess.userauth_pubkey_file(user, None, key, None) and the match on it.
KeyAuth ==
    /\ pc = "key_auth"
    /\ \E r \in {"ok", "passphrase", "other"} :
         /\ authLog' = Append(authLog, AuthCall("pubkey", "none", r))
         /\ IF r = "ok"
            THEN Authenticated /\ UNCHANGED authErr
            ELSE /\ authErr' = r
                 /\ IF MayPrompt(r, attempts)
                    THEN Goto("prompt_passphrase")
                    ELSE ReturnErr("AuthFailed")
    /\ UNCHANGED <<variant, xferVars, storeVars, config, vault, vault0, alias, identity, conn_str,
                   user, host, attempts, password, prompts, vaultWrites,
                   shellVars>>

\* Password::new("Enter passphrase for key:").prompt()?
PromptPassphrase ==
    /\ pc = "prompt_passphrase"
    /\ prompts' = Append(prompts, "passphrase")
    /\ \E entered \in BOOLEAN :
         IF entered
         THEN Goto("key_auth_pp")
         ELSE ReturnErr("PromptCancelled")
    /\ UNCHANGED <<variant, xferVars, storeVars, config, vault, vault0, alias, identity, conn_str,
                   user, host, attempts, authErr, password, authLog,
                   vaultWrites, shellVars>>

\* sess.userauth_pubkey_file(user, None, key, Some(&passphrase)).is_ok()
KeyAuthPassphrase ==
    /\ pc = "key_auth_pp"
    /\ \E r \in {"ok", "failed"} :
         /\ authLog' = Append(authLog, AuthCall("pubkey", "passphrase", r))
         /\ IF r = "ok"
            THEN Authenticated /\ UNCHANGED attempts
            ELSE IF AfterPassphraseFailure(variant) = "key_auth"
                 THEN /\ attempts' = attempts + 1
                      /\ Goto("key_auth")
                 ELSE /\ ReturnErr("AuthFailed")
                      /\ UNCHANGED attempts
    /\ UNCHANGED <<variant, xferVars, storeVars, config, vault, vault0, alias, identity, conn_str,
                   user, host, authErr, password, prompts, vaultWrites,
                   shellVars>>

\* match get_password(alias) { Ok(pass) => pass, Err(_) => { prompt .. } }
GetPassword ==
    /\ pc = "get_password"
    /\ \E answer \in GetPasswordAnswers(vault, alias) :
         IF GetPasswordOk(answer)
         THEN /\ password' = vault[alias]
              /\ Goto("auth_password")
         ELSE /\ Goto("prompt_password")
              /\ UNCHANGED password
    /\ UNCHANGED <<variant, xferVars, storeVars, config, vault, vault0, alias, identity, conn_str,
                   user, host, attempts, authErr, authLog, prompts,
                   vaultWrites, shellVars>>

\* Password::new("Enter password ..").prompt()?
PromptPassword ==
    /\ pc = "prompt_password"
    /\ prompts' = Append(prompts, "password")
    /\ \/ \E p \in Secrets :
            /\ password' = p
            /\ Goto(AfterPasswordPrompt(variant))
       \/ /\ ReturnErr("PromptCancelled")
          /\ UNCHANGED password
    /\ UNCHANGED <<variant, xferVars, storeVars, config, vault, vault0, alias, identity, conn_str,
                   user, host, attempts, authErr, authLog, vaultWrites,
                   shellVars>>

\* Confirm::new("Save password to keychain?").with_default(true).prompt()?
ConfirmSave ==
    /\ pc = "confirm_save"
    /\ prompts' = Append(prompts, "confirm")
    /\ \E answer \in {"yes", "no", "cancel"} :
         IF answer = "cancel"
         THEN ReturnErr("PromptCancelled")
         ELSE Goto(IF answer = "yes" THEN "set_password" ELSE "auth_password")
    /\ UNCHANGED <<variant, xferVars, storeVars, config, vault, vault0, alias, identity, conn_str,
                   user, host, attempts, authErr, password, authLog,
                   vaultWrites, shellVars>>

\* set_password(alias, &pass)?
SetPassword ==
    /\ pc = "set_password"
    /\ \E ok \in BOOLEAN :
         IF ok
         THEN /\ vault' = VaultSet(vault, alias, password)
              /\ vaultWrites' = Append(vaultWrites,
                     [alias |-> alias, secret |-> password,
                      authed |-> sess = "authed",
                      confirmed |-> Len(prompts) > 0
                                     /\ prompts[Len(prompts)] = "confirm"])
              /\ enteredFor' = VaultSet(enteredFor, alias,
                                         [user |-> user, host |-> host])
              /\ Goto("auth_password")
         ELSE /\ ReturnErr("VaultWriteFailed")
              /\ UNCHANGED <<vault, vaultWrites, enteredFor>>
    /\ UNCHANGED <<variant, xferVars, storeCmdVars, config, vault0, alias, identity, conn_str, user,
                   host, attempts, authErr, password, authLog, prompts,
                   shellVars>>

\* sess.userauth_password(user, &password).context(..)?
AuthPassword ==
    /\ pc = "auth_password"
    /\ \E r \in {"ok", "failed"} :
         /\ authLog' = Append(authLog, AuthCall("password", password, r))
         /\ IF r = "ok" THEN Authenticated ELSE ReturnErr("AuthFailed")
    /\ UNCHANGED <<variant, xferVars, storeVars, config, vault, vault0, alias, identity, conn_str,
                   user, host, attempts, authErr, password, prompts,
                   vaultWrites, shellVars>>

\* println!("Successfully connected!"): create_session returns Ok(sess) to
\* the caller that runs the shell on it; handle_connect goes on to the shell.
SessionReady ==
    /\ pc = "connected"
    /\ sessResult' = "Ok"
    /\ pc' = "shell_setup"
    /\ UNCHANGED <<variant, xferVars, storeVars, tcp, sess, sessVarsButResult, shellVars>>

\* Session building, from the command's start to the authenticated session.
Next ==
    \/ LookupAlias
    \/ ParseConnStr
    \/ TcpConnect
    \/ SessionNew
    \/ Handshake
    \/ KeyAuth
    \/ PromptPassphrase
    \/ KeyAuthPassphrase
    \/ GetPassword
    \/ PromptPassword
    \/ ConfirmSave
    \/ SetPassword
    \/ AuthPassword
    \/ SessionReady

Spec == Init /\ [][Next]_vars

\* ---------------------------------------------------- interactive shell
\* handle_interactive_shell (ssh.rs 89-174), and the same statements at the
\* end of handle_connect (main.rs 184-267).

\* The state in which the shell starts: a session building that went through
\* the password path with a stored secret has handed over its session.
ShellInit ==
    /\ variant \in Variants
    /\ config = [a \in Aliases |-> <<"u", "@", "h">>]
    /\ vault = [a \in Aliases |-> "s3cret"]
    /\ vault0 = vault
    /\ alias = "box"
    /\ identity = FALSE
    /\ pc = "shell_setup"
    /\ conn_str = <<"u", "@", "h">>
    /\ user = <<"u">>
    /\ host = <<"h">>
    /\ tcp = "open"
    /\ sess = "authed"
    /\ attempts = 0
    /\ authErr = "none"
    /\ password = "s3cret"
    /\ authLog = <<[method |-> "password", peer |-> <<"h">>, user |-> <<"u">>,
                    secret |-> "s3cret", result |-> "ok"]>>
    /\ prompts = <<>>
    /\ vaultWrites = <<>>
    /\ sessResult = "Ok"
    /\ rawMode = FALSE
    /\ blocking = TRUE
    /\ event = NoEvent
    /\ sent = <<>>
    /\ accepted = <<>>
    /\ received = <<>>
    /\ display = <<>>
    /\ exitCause = "none"
    /\ shellResult = "none"
    /\ XferIdle
    /\ StoreLoaded("connect")

\* The shell function returns `r`; the Session it owns goes out of scope.
\* Nothing on the way out touches the terminal mode.
ShellReturn(r) ==
    /\ pc' = "done"
    /\ shellResult' = r
    /\ tcp' = DropTcp(tcp)
    /\ sess' = DropSess(sess)

\* An output phase that reads a chunk and does not write it.
DisplayWriteDrop(d, chunk) == d

\* stdout.write_all(&channel_buf[..n]): the chunk is appended to what the
\* display shows.
DisplayWrite(d, chunk) == Append(d, chunk)

\* What `Err(e) => { eprintln!(..); break 'main_loop; }` leads to: the
\* statements after the loop, the same as for Ok(0).
AfterReadError == "exit"

\* What a successful disable_raw_mode() is followed by: `Ok(())`, whatever
\* made the loop end.
ShellExitValue(cause) == "Ok"

\* sess.channel_session()?; terminal::size()?; channel.request_pty(..)?;
\* channel.shell()?
ShellSetup ==
    /\ pc = "shell_setup"
    /\ \E failed \in {"none", "channel_session", "size", "request_pty", "shell"} :
         IF failed = "none"
         THEN /\ pc' = "raw"
              /\ UNCHANGED <<tcp, sess, shellResult>>
         ELSE ShellReturn("ChannelSetupError")
    /\ UNCHANGED <<variant, xferVars, storeVars, sessVars, rawMode, blocking, event, sent, accepted, received,
                   display, exitCause>>

\* terminal::enable_raw_mode()?; sess.set_blocking(false)
EnableRawMode ==
    /\ pc = "raw"
    /\ \E ok \in BOOLEAN :
         IF ok
         THEN /\ rawMode' = TRUE
              /\ blocking' = FALSE
              /\ pc' = "poll"
              /\ UNCHANGED <<tcp, sess, shellResult>>
         ELSE /\ ShellReturn("RawModeError")
              /\ UNCHANGED <<rawMode, blocking>>
    /\ UNCHANGED <<variant, xferVars, storeVars, sessVars, event, sent, accepted, received, display, exitCause>>

\* crossterm::event::poll(10 ms)? returned Err.
PollError ==
    /\ pc = "poll"
    /\ ShellReturn("PollError")
    /\ UNCHANGED <<variant, xferVars, storeVars, sessVars, rawMode, blocking, event, sent, accepted, received,
                   display, exitCause>>

\* poll returned Ok(false), or event::read() returned Err (`if let Ok(..)`
\* skips it): no event is handled and the output phase follows.
NoLocalEvent ==
    /\ pc = "poll"
    /\ \E why \in {"timeout", "read_failed"} :
         /\ event' = NoEvent
         /\ sent' = <<>>
         /\ accepted' = <<>>
         /\ pc' = "read"
    /\ UNCHANGED <<variant, xferVars, storeVars, sessVars, tcp, sess, rawMode, blocking, received,
                   display, exitCause, shellResult>>

\* channel.write_all(&key_bytes) on the non-blocking session: the channel
\* takes the bytes in one or more writes; the first write that returns an
\* error, WouldBlock included, ends write_all with that error.  `n` is the
\* number of bytes taken before that (all of them when no write fails).
WriteAll(bytes, n) ==
    [ok |-> n = Len(bytes), taken |-> SubSeq(bytes, 1, n)]

\* Event::Key(key_event): a non-press event `continue`s the outer loop; a
\* press is translated and, if it gave bytes, written and flushed.
KeyEvent ==
    /\ pc = "poll"
    /\ \E k \in KeyKinds, code \in KeyCodes, mods \in Modifiers :
         /\ event' = KeyEventOf(k, code, mods)
         /\ IF k # "Press"
            THEN /\ sent' = <<>>
                 /\ accepted' = <<>>
                 /\ pc' = "poll"
                 /\ UNCHANGED <<tcp, sess, shellResult>>
            ELSE IF KeyBytes(code, mods) = <<>>
                 THEN /\ sent' = <<>>
                      /\ accepted' = <<>>
                      /\ pc' = "read"
                      /\ UNCHANGED <<tcp, sess, shellResult>>
                 ELSE \E n \in 0..Len(KeyBytes(code, mods)), flushed \in BOOLEAN :
                        LET w == WriteAll(KeyBytes(code, mods), n) IN
                        /\ accepted' = w.taken
                        /\ IF w.ok /\ flushed
                           THEN /\ sent' = KeyBytes(code, mods)
                                /\ pc' = "read"
                                /\ UNCHANGED <<tcp, sess, shellResult>>
                           ELSE /\ sent' = <<>>
                                /\ ShellReturn(IF ~w.ok
                                               THEN "ChannelWriteError"
                                               ELSE "ChannelFlushError")
    /\ UNCHANGED <<variant, xferVars, storeVars, sessVars, rawMode, blocking, received, display,
                   exitCause>>

\* Event::Resize(w, h): channel.request_pty_size(..)?
ResizeEvent ==
    /\ pc = "poll"
    /\ event' = OtherEventOf("Resize")
    /\ sent' = <<>>
    /\ accepted' = <<>>
    /\ \E ok \in BOOLEAN :
         IF ok
         THEN /\ pc' = "read"
              /\ UNCHANGED <<tcp, sess, shellResult>>
         ELSE ShellReturn("ResizeError")
    /\ UNCHANGED <<variant, xferVars, storeVars, sessVars, rawMode, blocking, received, display,
                   exitCause>>

\* Any other event (mouse, focus, paste): `_ => {}`
OtherEvent ==
    /\ pc = "poll"
    /\ event' = OtherEventOf("Other")
    /\ sent' = <<>>
    /\ accepted' = <<>>
    /\ pc' = "read"
    /\ UNCHANGED <<variant, xferVars, storeVars, sessVars, tcp, sess, rawMode, blocking, received,
                   display, exitCause, shellResult>>

\* channel.read => Ok(n), n > 0: stdout.write_all(..)?; stdout.flush()?
\* The chunks are numbered in the order the channel yields them.
ReadData ==
    /\ pc = "read"
    /\ Len(received) < MaxChunks
    /\ LET chunk == Len(received) + 1 IN
         /\ received' = Append(received, chunk)
         /\ \/ /\ display' = DisplayWrite(display, chunk)
               /\ pc' = "read"
               /\ UNCHANGED <<tcp, sess, shellResult>>
            \/ /\ display' = display
               /\ ShellReturn("DisplayWriteError")
            \/ /\ display' \in {display, DisplayWrite(display, chunk)}
               /\ ShellReturn("DisplayFlushError")
    /\ UNCHANGED <<variant, xferVars, storeVars, sessVars, rawMode, blocking, event, sent, accepted, exitCause>>

\* A would-block that breaks out of the outer loop.
AfterWouldBlockExit == "exit"

\* What `Err(e) if e.kind() == io::ErrorKind::WouldBlock => break` leads
\* to: the top of 'main_loop, the next input poll.
AfterWouldBlock == "poll"

\* channel.read => Err(WouldBlock): `break` out of the inner loop only.
ReadWouldBlock ==
    /\ pc = "read"
    /\ pc' = AfterWouldBlock
    /\ UNCHANGED <<variant, xferVars, storeVars, sessVars, tcp, sess, shellVars>>

\* channel.read => Ok(0): `break 'main_loop`
ReadEof ==
    /\ pc = "read"
    /\ exitCause' = "eof"
    /\ pc' = "exit"
    /\ UNCHANGED <<variant, xferVars, storeVars, sessVars, tcp, sess, rawMode, blocking, event, sent,
                   accepted,
                   received, display, shellResult>>

\* channel.read => Err(e), e not WouldBlock: eprintln!(..); break 'main_loop
ReadError ==
    /\ pc = "read"
    /\ exitCause' = "read_error"
    /\ pc' = AfterReadError
    /\ UNCHANGED <<variant, xferVars, storeVars, sessVars, tcp, sess, rawMode, blocking, event, sent,
                   accepted,
                   received, display, shellResult>>

\* terminal::disable_raw_mode()?; Ok(())
LeaveShell ==
    /\ pc = "exit"
    /\ \E ok \in BOOLEAN :
         IF ok
         THEN /\ rawMode' = FALSE
              /\ ShellReturn(ShellExitValue(exitCause))
         ELSE /\ UNCHANGED rawMode
              /\ ShellReturn("TerminalRestoreError")
    /\ UNCHANGED <<variant, xferVars, storeVars, sessVars, blocking, event, sent, accepted, received, display,
                   exitCause>>

\* The interactive shell, from its first statement to its return.
ShellNext ==
    \/ ShellSetup
    \/ EnableRawMode
    \/ PollError
    \/ NoLocalEvent
    \/ KeyEvent
    \/ ResizeEvent
    \/ OtherEvent
    \/ ReadData
    \/ ReadWouldBlock
    \/ ReadEof
    \/ ReadError
    \/ LeaveShell

ShellSpec == ShellInit /\ [][ShellNext]_vars

\* --------------------------------------------------------- file transfer
\* handle_upload (ssh.rs 176-208) and handle_download (ssh.rs 210-252).
\* Paths are sequences of components; file contents are sequences of bytes.

UploadLocalPaths == {<<"report.txt">>, <<"docs", "report.txt">>}
UploadRemoteDirs == {<<"in">>, <<"home", "u", "in">>}
DownloadRemotePaths == {<<"var", "f.log">>, <<"var", "..">>, <<>>}
DownloadLocalDirs == {<<"tmp">>, <<"tmp", "out">>}
PathKinds == {"file", "dir", "absent"}

\* A file of n bytes; the bytes are numbered so that order and loss show.
FileOf(n) == [i \in 1..n |-> i]
NoFile == [exists |-> FALSE, data |-> <<>>]
\* What a file left by an earlier run holds.
OldFile == [exists |-> TRUE, data |-> <<0>>]

Min(a, b) == IF a < b THEN a ELSE b

\* Path::file_name: the last component, none for a path that is empty or
\* ends in "..".  An Option is a sequence of no or one element.
FileName(path) ==
    IF path = <<>> \/ path[Len(path)] = ".." THEN <<>>
    ELSE <<path[Len(path)]>>

\* A join that forgets the file name.
JoinDirOnly(dir, name) == dir

\* Path::join with a file name: the name becomes the last component.
Join(dir, name) == Append(dir, name)

\* stat.size.unwrap_or(0)
SizeOrZero(size) == IF size = <<>> THEN 0 ELSE size[1]

\* The checks of handle_download before anything is opened or created, with
\* the test of the destination left out.
DownloadPrecheckNoFileTest(remote, kind) ==
    IF FileName(remote) = <<>> THEN "InvalidRemotePath" ELSE "none"

\* The checks of handle_download before anything is opened or created:
\* remote_path.file_name().ok_or_else(..)?, then local_dir.is_file().
DownloadPrecheck(remote, kind) ==
    IF FileName(remote) = <<>> THEN "InvalidRemotePath"
    ELSE IF kind = "file" THEN "DestinationIsFile"
    ELSE "none"

\* A failed copy that removes what it had written.
DestRemovedOnError(d) == NoFile

\* `io::copy(..)?` failing: the function returns, the destination file
\* stays as the writes left it.
DestOnError(d) == d

\* The state in which a transfer starts: an authenticated session has been
\* handed over, the arguments and the files are any.
XferInit ==
    /\ variant = "ssh"
    /\ config = [a \in Aliases |-> <<"u", "@", "h">>]
    /\ vault = [a \in Aliases |-> "s3cret"]
    /\ vault0 = vault
    /\ alias = "box"
    /\ identity = FALSE
    /\ conn_str = <<"u", "@", "h">>
    /\ user = <<"u">>
    /\ host = <<"h">>
    /\ tcp = "open"
    /\ sess = "authed"
    /\ attempts = 0
    /\ authErr = "none"
    /\ password = "s3cret"
    /\ authLog = <<[method |-> "password", peer |-> <<"h">>, user |-> <<"u">>,
                    secret |-> "s3cret", result |-> "ok"]>>
    /\ prompts = <<>>
    /\ vaultWrites = <<>>
    /\ sessResult = "Ok"
    /\ rawMode = FALSE
    /\ blocking = TRUE
    /\ event = NoEvent
    /\ sent = <<>>
    /\ accepted = <<>>
    /\ received = <<>>
    /\ display = <<>>
    /\ exitCause = "none"
    /\ shellResult = "none"
    /\ xfer \in {"upload", "download"}
    /\ StoreLoaded(xfer)
    /\ pc = IF xfer = "upload" THEN "u_check" ELSE "d_check"
    /\ localPath \in (IF xfer = "upload" THEN UploadLocalPaths
                      ELSE DownloadLocalDirs)
    /\ remotePath \in (IF xfer = "upload" THEN UploadRemoteDirs
                       ELSE DownloadRemotePaths)
    /\ localKind \in PathKinds
    /\ src \in {FileOf(n) : n \in 0..MaxFile}
    /\ dest \in (IF xfer = "download" /\ localKind # "dir"
                 THEN {NoFile} ELSE {NoFile, OldFile})
    /\ srcOpen = FALSE
    /\ sftp = FALSE
    /\ dirMade = FALSE
    /\ destPath = <<>>
    /\ total = 0
    /\ progress = 0
    /\ pos = 0
    /\ wrote = <<>>
    /\ xferResult = "none"

\* The transfer function returns `r`; the Session it owns goes out of scope.
XferReturn(r) ==
    /\ pc' = "done"
    /\ xferResult' = r
    /\ tcp' = DropTcp(tcp)
    /\ sess' = DropSess(sess)

XferGoto(l) ==
    /\ pc' = l
    /\ UNCHANGED <<tcp, sess, xferResult>>

\* if !local_path.is_file() { return Err(..) }; file_name; remote_path
UploadCheck ==
    /\ pc = "u_check"
    /\ IF localKind # "file"
       THEN XferReturn("NotAFile")
       ELSE XferGoto("u_open")
    /\ UNCHANGED <<variant, sessVars, shellVars, storeVars, xfer, localPath,
                   remotePath, localKind, src, srcOpen, sftp, dirMade,
                   destPath, dest, total, progress, pos, wrote>>

\* fs::File::open(local_path)?; local_file.metadata()?.len();
\* ProgressBar::new(file_size)
UploadOpen ==
    /\ pc = "u_open"
    /\ \E failed \in {"none", "open", "metadata"} :
         /\ srcOpen' = (failed # "open")
         /\ IF failed = "none"
            THEN /\ total' = Len(src)
                 /\ XferGoto("u_sftp")
            ELSE /\ UNCHANGED total
                 /\ XferReturn(IF failed = "open" THEN "OpenFailed"
                               ELSE "MetadataFailed")
    /\ UNCHANGED <<variant, sessVars, shellVars, storeVars, xfer, localPath,
                   remotePath, localKind, src, sftp, dirMade, destPath, dest,
                   progress, pos, wrote>>

\* A download that creates the local file before it opens the remote one.
AfterSftpCreateFirst(l) == IF l = "u_sftp" THEN "u_create" ELSE "d_create"

\* What follows `sess.sftp()?`: upload has its source open and creates the
\* remote file (sftp.create), download opens its source (sftp.open).
AfterSftp(l) == IF l = "u_sftp" THEN "u_create" ELSE "d_open"

\* sess.sftp().context(..)?   (both directions)
OpenSftp ==
    /\ pc \in {"u_sftp", "d_sftp"}
    /\ \E ok \in BOOLEAN :
         IF ok
         THEN /\ sftp' = TRUE
              /\ XferGoto(AfterSftp(pc))
         ELSE /\ UNCHANGED sftp
              /\ XferReturn("SftpFailed")
    /\ UNCHANGED <<variant, sessVars, shellVars, storeVars, xfer, localPath,
                   remotePath, localKind, src, srcOpen, dirMade, destPath,
                   dest, total, progress, pos, wrote>>

\* sftp.create(&remote_path).context(..)?: the remote file is created, or
\* truncated if it was there.
UploadCreate ==
    /\ pc = "u_create"
    /\ \E ok \in BOOLEAN :
         IF ok
         THEN /\ destPath' = Join(remotePath, FileName(localPath)[1])
              /\ dest' = [exists |-> TRUE, data |-> <<>>]
              /\ XferGoto("copy")
         ELSE /\ UNCHANGED <<destPath, dest>>
              /\ XferReturn("CreateFailed")
    /\ UNCHANGED <<variant, sessVars, shellVars, storeVars, xfer, localPath,
                   remotePath, localKind, src, srcOpen, sftp, dirMade, total,
                   progress, pos, wrote>>

\* remote_path.file_name().ok_or_else(..)?; if local_dir.is_file() { Err }
DownloadCheck ==
    /\ pc = "d_check"
    /\ IF DownloadPrecheck(remotePath, localKind) # "none"
       THEN XferReturn(DownloadPrecheck(remotePath, localKind))
       ELSE XferGoto("d_mkdir")
    /\ UNCHANGED <<variant, sessVars, shellVars, storeVars, xfer, localPath,
                   remotePath, localKind, src, srcOpen, sftp, dirMade,
                   destPath, dest, total, progress, pos, wrote>>

\* fs::create_dir_all(local_dir).context(..)?: fails on a path that is a
\* file, may fail otherwise.
DownloadMkdir ==
    /\ pc = "d_mkdir"
    /\ \E ok \in (IF localKind = "file" THEN {FALSE} ELSE BOOLEAN) :
         IF ok
         THEN /\ localKind' = "dir"
              /\ dirMade' = TRUE
              /\ XferGoto("d_sftp")
         ELSE /\ UNCHANGED <<localKind, dirMade>>
              /\ XferReturn("CreateDirFailed")
    /\ UNCHANGED <<variant, sessVars, shellVars, storeVars, xfer, localPath,
                   remotePath, src, srcOpen, sftp, destPath, dest, total,
                   progress, pos, wrote>>

\* sftp.open(remote_path).context(..)?
DownloadOpen ==
    /\ pc = "d_open"
    /\ \E ok \in BOOLEAN :
         IF ok
         THEN /\ srcOpen' = TRUE
              /\ XferGoto("d_stat")
         ELSE /\ UNCHANGED srcOpen
              /\ XferReturn("OpenFailed")
    /\ UNCHANGED <<variant, sessVars, shellVars, storeVars, xfer, localPath,
                   remotePath, localKind, src, sftp, dirMade, destPath, dest,
                   total, progress, pos, wrote>>

\* let stat = remote_file.stat()?; stat.size.unwrap_or(0);
\* ProgressBar::new(file_size)
DownloadStat ==
    /\ pc = "d_stat"
    /\ \/ \E size \in {<<>>, <<Len(src)>>} :
            /\ total' = SizeOrZero(size)
            /\ XferGoto("d_create")
       \/ /\ UNCHANGED total
          /\ XferReturn("StatFailed")
    /\ UNCHANGED <<variant, sessVars, shellVars, storeVars, xfer, localPath,
                   remotePath, localKind, src, srcOpen, sftp, dirMade,
                   destPath, dest, progress, pos, wrote>>

\* fs::File::create(&local_path).context(..)?: the local file is created,
\* or truncated if it was there.
DownloadCreate ==
    /\ pc = "d_create"
    /\ \E ok \in BOOLEAN :
         IF ok
         THEN /\ destPath' = Join(localPath, FileName(remotePath)[1])
              /\ dest' = [exists |-> TRUE, data |-> <<>>]
              /\ XferGoto("copy")
         ELSE /\ UNCHANGED <<destPath, dest>>
              /\ XferReturn("CreateFailed")
    /\ UNCHANGED <<variant, sessVars, shellVars, storeVars, xfer, localPath,
                   remotePath, localKind, src, srcOpen, sftp, dirMade, total,
                   progress, pos, wrote>>

\* One round of io::copy(&mut reader, &mut dest): a read of up to BufLen
\* bytes through pb.wrap_read, which counts them, then write_all of what
\* was read.  A write error ends the copy with the bytes taken so far left
\* in the destination.
CopyChunk ==
    /\ pc = "copy"
    /\ pos < Len(src)
    /\ \E k \in 1..Min(BufLen, Len(src) - pos) :
         LET chunk == SubSeq(src, pos + 1, pos + k) IN
         \E n \in 0..k :
           LET w == WriteAll(chunk, n) IN
           /\ progress' = progress + k
           /\ pos' = pos + k
           /\ wrote' = wrote \o w.taken
           /\ IF w.ok
              THEN /\ dest' = [dest EXCEPT !.data = @ \o w.taken]
                   /\ XferGoto("copy")
              ELSE /\ dest' = DestOnError([dest EXCEPT !.data = @ \o w.taken])
                   /\ XferReturn("TransferFailed")
    /\ UNCHANGED <<variant, sessVars, shellVars, storeVars, xfer, localPath,
                   remotePath, localKind, src, srcOpen, sftp, dirMade,
                   destPath, total>>

\* A read of the source fails inside io::copy.
CopyReadError ==
    /\ pc = "copy"
    /\ dest' = DestOnError(dest)
    /\ XferReturn("TransferFailed")
    /\ UNCHANGED <<variant, sessVars, shellVars, storeVars, xfer, localPath,
                   remotePath, localKind, src, srcOpen, sftp, dirMade,
                   destPath, total, progress, pos, wrote>>

\* The read at the end of the source returns 0: io::copy returns Ok;
\* pb.finish_with_message(..) puts the bar at its length, the size the bar
\* was created with, whatever it had counted; Ok(())
CopyDone ==
    /\ pc = "copy"
    /\ pos = Len(src)
    /\ progress' = total
    /\ XferReturn("Ok")
    /\ UNCHANGED <<variant, sessVars, shellVars, storeVars, xfer, localPath,
                   remotePath, localKind, src, srcOpen, sftp, dirMade,
                   destPath, dest, total, pos, wrote>>

\* A transfer, from the first statement of its function to its return.
XferNext ==
    \/ UploadCheck
    \/ UploadOpen
    \/ OpenSftp
    \/ UploadCreate
    \/ DownloadCheck
    \/ DownloadMkdir
    \/ DownloadOpen
    \/ DownloadStat
    \/ DownloadCreate
    \/ CopyChunk
    \/ CopyReadError
    \/ CopyDone

XferSpec == XferInit /\ [][XferNext]_vars

\* ---------------------------------------------------- alias store commands
\* main (main.rs 49-80) with Config::load / Config::save (config.rs) and
\* delete_password (credentials.rs 22-30).  One run of the program is one
\* command; runs follow one another on the same file and the same keyring.

StoreAliases == {"box", "dev"}
StoreConns == {<<"u", "@", "h">>, <<"h", "@", "u">>}
CommandNames == {"add", "remove", "list"}
SaveOutcomes == {"ok", "failed", "torn"}
\* HashMap::insert
MapInsert(m, k, v) == [x \in (DOMAIN m) \cup {k} |-> IF x = k THEN v ELSE m[x]]

\* HashMap::remove, the map it leaves
MapRemove(m, k) == [x \in (DOMAIN m) \ {k} |-> m[x]]

\* A remove that takes every alias as present.
RemoveFoundAlways(m, k) == TRUE

\* config.connections.remove(&alias).is_some()
RemoveFound(m, k) == k \in DOMAIN m

\* Config::save: the file holds the connections when every step succeeded;
\* a failure before fs::write leaves it as it was, a failure inside
\* fs::write leaves a file that no longer parses.
SaveFile(file, connections, outcome) ==
    CASE outcome = "ok" -> [disk |-> connections, valid |-> TRUE]
      [] outcome = "failed" -> file
      [] outcome = "torn" -> [disk |-> EmptyMap, valid |-> FALSE]

\* A remove that goes on to the keyring whatever save returned.
RemoveAfterSaveAlways(outcome) == "remove_vault"

\* `config.save()?;` in the Remove arm: the next statement is reached only
\* when save returned Ok.
RemoveAfterSave(outcome) ==
    IF outcome = "ok" THEN "remove_vault" ELSE "cmd_done"

\* What the keyring may answer to entry.delete_password().
DeleteAnswers(v, a) ==
    IF a \in DOMAIN v THEN {"deleted", "failed"} ELSE {"no_entry", "failed"}

\* A delete_password that reports a missing entry as an error.
DeleteResultStrict(answer) ==
    IF answer = "deleted" THEN "Ok" ELSE "VaultError"

\* delete_password's match: Ok(_) => Ok(()), Err(NoEntry) => Ok(()),
\* Err(e) => Err(e.into())
DeleteResult(answer) ==
    IF answer \in {"deleted", "no_entry"} THEN "Ok" ELSE "VaultError"

\* Before the first command: any alias file, any keyring, no session.
StoreInit ==
    /\ variant = "main"
    /\ disk \in Maps(StoreAliases, StoreConns)
    /\ diskValid = TRUE
    /\ disk0 = disk
    /\ config = EmptyMap
    /\ vault \in Maps(StoreAliases, {"s3cret"})
    /\ vault0 = vault
    /\ cmd = [name |-> "none", alias |-> "box", conn |-> <<>>]
    /\ enteredFor = EmptyMap
    /\ saved = "none"
    /\ vaultDelete = "none"
    /\ cmdResult = "none"
    /\ pc = "start"
    /\ alias = "box"
    /\ identity = FALSE
    /\ conn_str = <<>>
    /\ user = <<>>
    /\ host = <<>>
    /\ tcp = "none"
    /\ sess = "none"
    /\ attempts = 0
    /\ authErr = "none"
    /\ password = "none"
    /\ authLog = <<>>
    /\ prompts = <<>>
    /\ vaultWrites = <<>>
    /\ sessResult = "none"
    /\ rawMode = FALSE
    /\ blocking = TRUE
    /\ event = NoEvent
    /\ sent = <<>>
    /\ accepted = <<>>
    /\ received = <<>>
    /\ display = <<>>
    /\ exitCause = "none"
    /\ shellResult = "none"
    /\ XferIdle

\* The variables no store command touches.
storeFrame == <<variant, tcp, sess, alias, identity, conn_str, user, host,
                attempts, authErr, password, authLog, prompts, vaultWrites,
                sessResult, shellVars, xferVars>>

\* Cli::parse(); Config::load()?; match cli.command
StartCommand ==
    /\ pc \in {"start", "cmd_done"}
    /\ \E name \in CommandNames, a \in StoreAliases, c \in StoreConns,
          loaded \in (IF diskValid THEN BOOLEAN ELSE {FALSE}) :
         /\ cmd' = [name |-> name, alias |-> a,
                    conn |-> IF name = "add" THEN c ELSE <<>>]
         /\ IF loaded
            THEN /\ config' = disk
                 /\ cmdResult' = "none"
                 /\ pc' = name
            ELSE /\ config' = EmptyMap
                 /\ cmdResult' = "LoadFailed"
                 /\ pc' = "cmd_done"
    /\ disk0' = disk
    /\ vault0' = vault
    /\ saved' = "none"
    /\ vaultDelete' = "none"
    /\ UNCHANGED <<storeFrame, disk, diskValid, vault, enteredFor>>

\* Commands::Add: insert, config.save()?, println
AddCommand ==
    /\ pc = "add"
    /\ config' = MapInsert(config, cmd.alias, cmd.conn)
    /\ \E outcome \in SaveOutcomes :
         LET f == SaveFile([disk |-> disk, valid |-> diskValid], config',
                           outcome) IN
         /\ disk' = f.disk
         /\ diskValid' = f.valid
         /\ saved' = IF outcome = "ok" THEN "ok" ELSE "failed"
         /\ cmdResult' = IF outcome = "ok" THEN "Ok" ELSE "SaveFailed"
    /\ pc' = "cmd_done"
    /\ UNCHANGED <<storeFrame, disk0, vault, vault0, cmd, vaultDelete,
                   enteredFor>>

\* Commands::List: prints the connections, changes nothing
ListCommand ==
    /\ pc = "list"
    /\ cmdResult' = "Ok"
    /\ pc' = "cmd_done"
    /\ UNCHANGED <<storeFrame, config, disk, diskValid, disk0, vault, vault0,
                   cmd, saved, vaultDelete, enteredFor>>

\* Commands::Remove: if config.connections.remove(&alias).is_some() {..}
\* else { return Err(anyhow!("Alias '{}' not found.")) }
RemoveLookup ==
    /\ pc = "remove"
    /\ config' = MapRemove(config, cmd.alias)
    /\ IF RemoveFound(config, cmd.alias)
       THEN /\ pc' = "remove_save"
            /\ UNCHANGED cmdResult
       ELSE /\ pc' = "cmd_done"
            /\ cmdResult' = "AliasNotFound"
    /\ UNCHANGED <<storeFrame, disk, diskValid, disk0, vault, vault0, cmd,
                   saved, vaultDelete, enteredFor>>

\* config.save()?;   in the Remove arm
RemoveSave ==
    /\ pc = "remove_save"
    /\ \E outcome \in SaveOutcomes :
         LET f == SaveFile([disk |-> disk, valid |-> diskValid], config,
                           outcome) IN
         /\ disk' = f.disk
         /\ diskValid' = f.valid
         /\ saved' = IF outcome = "ok" THEN "ok" ELSE "failed"
         /\ pc' = RemoveAfterSave(outcome)
         /\ cmdResult' = IF pc' = "cmd_done" THEN "SaveFailed" ELSE cmdResult
    /\ UNCHANGED <<storeFrame, config, disk0, vault, vault0, cmd,
                   vaultDelete, enteredFor>>

\* delete_password(&alias)?; println!("Connection '{}' removed.")
RemoveVault ==
    /\ pc = "remove_vault"
    /\ \E answer \in DeleteAnswers(vault, cmd.alias) :
         /\ vaultDelete' = answer
         /\ vault' = IF answer = "deleted" THEN MapRemove(vault, cmd.alias)
                     ELSE vault
         /\ enteredFor' = IF answer = "deleted"
                          THEN MapRemove(enteredFor, cmd.alias)
                          ELSE enteredFor
         /\ cmdResult' = DeleteResult(answer)
    /\ pc' = "cmd_done"
    /\ UNCHANGED <<storeFrame, config, disk, diskValid, disk0, vault0, cmd,
                   saved>>

\* Runs of the add, remove and list commands, one after another.
StoreNext ==
    \/ StartCommand
    \/ AddCommand
    \/ ListCommand
    \/ RemoveLookup
    \/ RemoveSave
    \/ RemoveVault

StoreSpec == StoreInit /\ [][StoreNext]_vars

\* ------------------------------------------------------ runs of commands
\* Runs of the program one after another on the same alias file and the
\* same keychain: add, remove, list, connect and the interactive mode of a
\* run without subcommand (main.rs 49-112).  A connecting run is followed
\* up to the end of session building; the shell that comes
\* after it works on the channel and the terminal only and leaves the alias
\* file and the keychain as they are.

RunNames == CommandNames \cup {"connect", "interactive"}

\* Where the interactive mode may end before handle_connect: a cancelled
\* Select, a cancelled port Text, a port that is no u16, a cancelled
\* Confirm, a cancelled key path Text; or nowhere.
InteractiveStops == {"select", "port", "port_parse", "identity", "path", "none"}

\* The prompts the interactive mode has shown when it stops at `stop`, or
\* when it goes on to handle_connect, with or without an identity file.
InteractivePrompts(stop, key) ==
    CASE stop = "select" -> <<"select">>
      [] stop \in {"port", "port_parse"} -> <<"select", "port">>
      [] stop = "identity" -> <<"select", "port", "identity">>
      [] OTHER -> IF key THEN <<"select", "port", "identity", "path">>
                  ELSE <<"select", "port", "identity">>

\* What a run that stops at `stop` returns.
InteractiveError(stop) ==
    IF stop = "port_parse" THEN "InvalidPort" ELSE "PromptCancelled"

\* A fresh installation: no alias file, an empty keychain.
CmdInit ==
    /\ variant \in Variants
    /\ disk = EmptyMap
    /\ diskValid = TRUE
    /\ disk0 = disk
    /\ config = EmptyMap
    /\ vault = EmptyMap
    /\ vault0 = vault
    /\ enteredFor = EmptyMap
    /\ cmd = [name |-> "none", alias |-> "box", conn |-> <<>>]
    /\ saved = "none"
    /\ vaultDelete = "none"
    /\ cmdResult = "none"
    /\ pc = "start"
    /\ alias = "box"
    /\ identity = FALSE
    /\ conn_str = <<>>
    /\ user = <<>>
    /\ host = <<>>
    /\ tcp = "none"
    /\ sess = "none"
    /\ attempts = 0
    /\ authErr = "none"
    /\ password = "none"
    /\ authLog = <<>>
    /\ prompts = <<>>
    /\ vaultWrites = <<>>
    /\ sessResult = "none"
    /\ rawMode = FALSE
    /\ blocking = TRUE
    /\ event = NoEvent
    /\ sent = <<>>
    /\ accepted = <<>>
    /\ received = <<>>
    /\ display = <<>>
    /\ exitCause = "none"
    /\ shellResult = "none"
    /\ XferIdle

\* A new process: Cli::parse(); Config::load()?; match cli.command.  The
\* process before it has ended, and its connection with it; the alias file
\* and the keychain are what it left.
StartRun ==
    /\ pc \in {"start", "cmd_done", "done", "shell_setup"}
    /\ \E name \in RunNames, a \in Aliases, c \in StoreConns,
          key \in BOOLEAN,
          loaded \in (IF diskValid THEN BOOLEAN ELSE {FALSE}) :
         /\ cmd' = [name |-> name, alias |-> a,
                    conn |-> IF name = "add" THEN c ELSE <<>>]
         /\ alias' = a
         /\ identity' = (name = "connect" /\ key)
         /\ IF loaded
            THEN /\ config' = disk
                 /\ cmdResult' = "none"
                 /\ pc' = IF name = "connect" THEN "lookup" ELSE name
            ELSE /\ config' = EmptyMap
                 /\ cmdResult' = "LoadFailed"
                 /\ pc' = "cmd_done"
    /\ disk0' = disk
    /\ vault0' = vault
    /\ saved' = "none"
    /\ vaultDelete' = "none"
    /\ conn_str' = <<>>
    /\ user' = <<>>
    /\ host' = <<>>
    /\ tcp' = "none"
    /\ sess' = "none"
    /\ attempts' = 0
    /\ authErr' = "none"
    /\ password' = "none"
    /\ authLog' = <<>>
    /\ prompts' = <<>>
    /\ vaultWrites' = <<>>
    /\ sessResult' = "none"
    /\ UNCHANGED <<variant, shellVars, xferVars, disk, diskValid, vault,
                   enteredFor>>

\* The `None =>` arm: with no alias saved it prints a hint and returns Ok;
\* otherwise Select an alias, Text the port and parse it, Confirm the use
\* of an identity file and Text its path, each prompt ending the run when
\* it is cancelled, then handle_connect with the answers.
InteractiveMode ==
    /\ pc = "interactive"
    /\ IF DOMAIN config = {}
       THEN /\ cmdResult' = "Ok"
            /\ pc' = "cmd_done"
            /\ UNCHANGED <<alias, identity, prompts>>
       ELSE \E choice \in DOMAIN config, key \in BOOLEAN,
               stop \in InteractiveStops :
              /\ stop = "path" => key
              /\ prompts' = InteractivePrompts(stop, key)
              /\ IF stop = "none"
                 THEN /\ alias' = choice
                      /\ identity' = key
                      /\ pc' = "lookup"
                      /\ UNCHANGED cmdResult
                 ELSE /\ cmdResult' = InteractiveError(stop)
                      /\ pc' = "cmd_done"
                      /\ UNCHANGED <<alias, identity>>
    /\ UNCHANGED <<variant, tcp, sess, config, vault, vault0, conn_str, user,
                   host, attempts, authErr, password, authLog, vaultWrites,
                   sessResult, shellVars, xferVars, disk, diskValid, disk0,
                   cmd, saved, vaultDelete, enteredFor>>

CmdNext ==
    \/ StartRun
    \/ InteractiveMode
    \/ AddCommand
    \/ ListCommand
    \/ RemoveLookup
    \/ RemoveSave
    \/ RemoveVault
    \/ LookupAlias
    \/ ParseConnStr
    \/ TcpConnect
    \/ SessionNew
    \/ Handshake
    \/ KeyAuth
    \/ PromptPassphrase
    \/ KeyAuthPassphrase
    \/ GetPassword
    \/ PromptPassword
    \/ ConfirmSave
    \/ SetPassword
    \/ AuthPassword
    \/ SessionReady

CmdSpec == CmdInit /\ [][CmdNext]_vars

\* ---------------------------------------------------------------- claims

PromptCount(kind) == Cardinality({i \in 1..Len(prompts) : prompts[i] = kind})
KeyAttempts == {i \in 1..Len(authLog) : authLog[i].method = "pubkey"}
IsPrefix(a, b) == Len(a) <= Len(b) /\ a = SubSeq(b, 1, Len(a))
SessionFailed == pc = "done" /\ sessResult \notin {"none", "Ok"}

\* A connection string with exactly one '@' and text on both sides of it.
AtCount(s) == Cardinality({i \in 1..Len(s) : s[i] = "@"})
WellFormed(s) ==
    /\ AtCount(s) = 1
    /\ Len(s) >= 3
    /\ s[1] # "@"
    /\ s[Len(s)] # "@"

\* C1: the shell never returns with the terminal still in raw mode.
C1_RawModeRestoredOnReturn == pc = "done" => ~rawMode

\* C2: the prompted password reaches the vault only after authentication
\* with it succeeded and the user confirmed; a failed authentication leaves
\* the vault as it was.  (Stated for aliases with no stored secret whose
\* connection string is well formed, so that no run it is refuted by rests
\* on a malformed string or on a keychain that cannot be read.)
C2_VaultWrittenOnlyAfterAuthAndConfirm ==
    (WellFormed(conn_str) /\ alias \notin DOMAIN vault0) =>
        /\ \A i \in 1..Len(vaultWrites) :
             vaultWrites[i].authed /\ vaultWrites[i].confirmed
        /\ sessResult = "AuthFailed" => vault = vault0

\* C3: after a fatal channel read error the shell does not return Ok.
C3_ReadErrorReturnsError ==
    (pc = "done" /\ exitCause = "read_error") => shellResult # "Ok"

\* C4: at most one passphrase prompt per invocation, shown only in the key
\* path after the passphrase-less attempt failed asking for a passphrase; a
\* passphrase-less attempt failing for another reason ends the call with
\* AuthFailed and no prompt follows it.
C4_OnePassphrasePrompt ==
    /\ PromptCount("passphrase") <= 1
    /\ PromptCount("passphrase") = 1 =>
         /\ identity
         /\ Len(authLog) >= 1
         /\ authLog[1] = AuthCall("pubkey", "none", "passphrase")
    /\ \A i \in KeyAttempts :
         (authLog[i].secret = "none" /\ authLog[i].result = "other") =>
            /\ pc = "done"
            /\ sessResult = "AuthFailed"
            /\ i = Len(authLog)
            /\ (i = 1 => prompts = <<>>)

C4_Witness ==
    /\ pc = "done"
    /\ sessResult = "AuthFailed"
    /\ prompts = <<"passphrase">>
    /\ Len(authLog) >= 2

\* C5: the key path issues at most two authentication attempts, and none
\* after the attempt with the passphrase has failed.  (Stated for aliases
\* whose connection string is well formed, as C2.)
C5_AtMostTwoKeyAttempts ==
    WellFormed(conn_str) =>
        /\ Cardinality(KeyAttempts) <= 2
        /\ \A i \in KeyAttempts :
             (authLog[i].secret = "passphrase" /\ authLog[i].result = "failed")
                => i = Len(authLog)

\* C6: with a stored secret the password path authenticates once, with that
\* secret, never prompts and never writes the vault; success gives the
\* authenticated session, failure gives AuthFailed.  (Stated for aliases
\* whose connection string is well formed.)
C6_StoredSecretNoPrompt ==
    (~identity /\ alias \in DOMAIN vault0 /\ WellFormed(conn_str)) =>
        /\ prompts = <<>>
        /\ vault = vault0
        /\ vaultWrites = <<>>
        /\ Len(authLog) <= 1
        /\ Len(authLog) = 1 =>
             /\ authLog[1].method = "password"
             /\ authLog[1].secret = vault0[alias]
             /\ authLog[1].user = user
             /\ authLog[1].result = "ok" =>
                    sess = "authed" /\ sessResult \in {"none", "Ok"}
             /\ authLog[1].result = "failed" =>
                    pc = "done" /\ sessResult = "AuthFailed"
        /\ sessResult = "Ok" => Len(authLog) = 1

\* C7: a well-formed connection string is split into the text before and
\* after its '@'; every other string fails with InvalidConnectionString.
C7_ParseExactSplit ==
    (pc \notin {"lookup", "parse"} /\ sessResult # "AliasNotFound") =>
        IF WellFormed(conn_str)
        THEN /\ sessResult # "InvalidConnectionString"
             /\ conn_str = user \o <<"@">> \o host
        ELSE sessResult = "InvalidConnectionString"

\* C8: a session is returned only after an authentication call succeeded,
\* and every error return leaves neither the TCP connection nor the session
\* open.
C8_ErrorsReleaseConnection ==
    /\ sessResult = "Ok" =>
         /\ sess = "authed"
         /\ Len(authLog) >= 1
         /\ authLog[Len(authLog)].result = "ok"
    /\ SessionFailed =>
         /\ tcp # "open"
         /\ sess \in {"none", "dropped"}

C8_Witness ==
    /\ pc = "done"
    /\ sessResult = "VaultWriteFailed"
    /\ tcp = "closed"
    /\ sess = "dropped"

\* The translation table as the specification gives it.
KeyTable(e) ==
    IF e.kind # "Press" THEN <<>>
    ELSE CASE e.code.name = "Char" /\ "CONTROL" \notin e.mods -> <<e.code.c>>
           [] e.code.name = "Char" /\ "CONTROL" \in e.mods
                /\ e.code.c \in 97..122 -> <<e.code.c - 97 + 1>>
           [] e.code.name = "Enter" -> <<13>>
           [] e.code.name = "Backspace" -> <<8>>
           [] e.code.name = "Left" -> <<27, 91, 68>>
           [] e.code.name = "Right" -> <<27, 91, 67>>
           [] e.code.name = "Up" -> <<27, 91, 65>>
           [] e.code.name = "Down" -> <<27, 91, 66>>
           [] e.code.name = "Tab" -> <<9>>
           [] e.code.name = "Esc" -> <<27>>
           [] OTHER -> <<>>

\* C9: the bytes written to the channel for a key event are exactly those
\* of the translation table.
C9_KeyTranslation ==
    (event.type = "Key"
       /\ shellResult \notin {"ChannelWriteError", "ChannelFlushError"})
    => sent = KeyTable(event)

\* C10: the display shows the chunks read from the channel in receipt
\* order, none dropped, duplicated or reordered; when the zero-length read
\* comes every chunk has been written, and the shell then returns Ok (the
\* one call left that can fail is the restoring of the terminal mode).
C10_OutputDelivery ==
    /\ IsPrefix(display, received)
    /\ exitCause = "eof" => display = received
    /\ (pc = "done" /\ exitCause = "eof") =>
          shellResult \in {"Ok", "TerminalRestoreError"}
    /\ (pc = "done" /\ exitCause = "eof" /\ ~rawMode) => shellResult = "Ok"

C10_Witness ==
    /\ pc = "done"
    /\ exitCause = "eof"
    /\ shellResult = "Ok"
    /\ Len(display) = MaxChunks
    /\ Len(display) > 0
    /\ event.type = "Key"

\* C11: the bytes of one key press reach the channel all or not at all: the
\* shell never returns having sent a non-empty proper prefix of them.
C11_EventBytesAtomic ==
    ~(/\ pc = "done"
      /\ event.type = "Key"
      /\ event.kind = "Press"
      /\ Len(accepted) > 0
      /\ Len(accepted) < Len(KeyBytes(event.code, event.mods)))

\* C12 as stated: a download whose local destination is an existing regular
\* file returns DestinationIsFile, whatever the remote path is.
C12_AlwaysDestinationIsFile ==
    (pc = "done" /\ xfer = "download" /\ localKind = "file")
        => xferResult = "DestinationIsFile"

\* C12: a download whose local destination is an existing regular file
\* returns DestinationIsFile when the remote path has a base name, and
\* InvalidRemotePath when it has none; either way before the SFTP subsystem
\* or the remote file is opened and before any local directory or file is
\* created.
C12_DestinationIsFileBeforeNetwork ==
    (pc = "done" /\ xfer = "download" /\ localKind = "file")
        => /\ xferResult = (IF FileName(remotePath) = <<>>
                            THEN "InvalidRemotePath"
                            ELSE "DestinationIsFile")
           /\ ~sftp
           /\ ~srcOpen
           /\ ~dirMade
           /\ ~dest.exists
           /\ destPath = <<>>

C12_Witness ==
    /\ pc = "done"
    /\ xfer = "download"
    /\ localKind = "file"
    /\ FileName(remotePath) # <<>>
    /\ xferResult = "DestinationIsFile"

\* C13: an upload whose local path is not a regular file returns NotAFile;
\* otherwise the remote file it writes is remoteDir with the local file's
\* base name as last component, and when it returns Ok the bytes written to
\* the remote file and the progress counter both equal the local file's
\* size, the remote file holding the local file's bytes.
C13_UploadWritesJoinedPath ==
    (pc = "done" /\ xfer = "upload")
        => /\ (localKind # "file" => xferResult = "NotAFile")
           /\ (destPath # <<>>
                 => destPath = remotePath \o <<localPath[Len(localPath)]>>)
           /\ (xferResult = "Ok"
                 => /\ localKind = "file"
                    /\ destPath # <<>>
                    /\ Len(wrote) = Len(src)
                    /\ progress = Len(src)
                    /\ total = Len(src)
                    /\ dest = [exists |-> TRUE, data |-> src])

C13_Witness ==
    /\ pc = "done"
    /\ xfer = "upload"
    /\ xferResult = "Ok"
    /\ localPath = <<"docs", "report.txt">>
    /\ destPath = <<"home", "u", "in", "report.txt">>
    /\ Len(wrote) = MaxFile

\* C14: a transfer whose copy was cut short by a read or write failure has
\* returned TransferFailed, and a transfer that returned TransferFailed
\* has left the destination file in place holding exactly the bytes written
\* before the failure, a prefix of the source with no byte written twice.
C14_PartialDestinationKept ==
    /\ (pc = "done" /\ destPath # <<>> /\ dest.data # src)
          => xferResult = "TransferFailed"
    /\ (pc = "done" /\ xferResult = "TransferFailed")
          => /\ dest.exists
             /\ dest.data = wrote
             /\ IsPrefix(wrote, src)
             /\ pos <= Len(src)

C14_Witness ==
    /\ pc = "done"
    /\ xferResult = "TransferFailed"
    /\ dest.exists
    /\ Len(dest.data) > 0
    /\ Len(dest.data) < Len(src)

\* C15: a download that opened the remote file goes on to create the local
\* file and to stream every remote byte, whether or not the remote size
\* could be obtained: short of a failure to create or to copy, it ends with
\* the local file holding the remote file's bytes.
C15_SizeNeverAltersTransfer ==
    (/\ pc = "done"
     /\ xfer = "download"
     /\ srcOpen
     /\ xferResult \notin {"CreateFailed", "TransferFailed"})
        => /\ xferResult = "Ok"
           /\ dest = [exists |-> TRUE, data |-> src]

\* C16: a remove of an alias that is not in the store changes nothing: the
\* persisted store is not rewritten, no vault deletion is requested, the
\* vault is as it was; and when the store could be loaded the command
\* returns AliasNotFound.
C16_RemoveAbsentChangesNothing ==
    (/\ pc = "cmd_done"
     /\ cmd.name = "remove"
     /\ cmd.alias \notin DOMAIN disk0)
        => /\ cmdResult \in {"AliasNotFound", "LoadFailed"}
           /\ saved = "none"
           /\ disk = disk0
           /\ vaultDelete = "none"
           /\ vault = vault0

C16_Witness ==
    /\ pc = "cmd_done"
    /\ cmd.name = "remove"
    /\ cmd.alias = "dev"
    /\ DOMAIN disk0 = {"box"}
    /\ "dev" \in DOMAIN vault0
    /\ cmdResult = "AliasNotFound"

\* C17: a remove of an alias that is in the store, once the store is saved,
\* has taken the alias out of the persisted store and has asked the vault
\* to delete its entry; when no secret was stored for the alias and the
\* vault answers that there is no entry, the command returns Ok, and
\* neither the alias nor a vault entry for it exists afterwards.
C17_RemoveExistingWithoutSecret ==
    (/\ pc = "cmd_done"
     /\ cmd.name = "remove"
     /\ cmd.alias \in DOMAIN disk0
     /\ saved = "ok")
        => /\ diskValid
           /\ disk = MapRemove(disk0, cmd.alias)
           /\ vaultDelete # "none"
           /\ (cmd.alias \notin DOMAIN vault0 /\ vaultDelete = "no_entry"
                 => /\ cmdResult = "Ok"
                    /\ cmd.alias \notin DOMAIN disk
                    /\ cmd.alias \notin DOMAIN vault)
           /\ (vaultDelete = "deleted"
                 => /\ cmdResult = "Ok"
                    /\ cmd.alias \notin DOMAIN vault)

C17_Witness ==
    /\ pc = "cmd_done"
    /\ cmd.name = "remove"
    /\ cmd.alias \in DOMAIN disk0
    /\ cmd.alias \notin DOMAIN vault0
    /\ vaultDelete = "no_entry"
    /\ cmdResult = "Ok"

\* C18: in remove the store is saved before the vault is asked: a vault
\* deletion is requested only after the store was saved without the alias;
\* when that deletion fails the command returns the failure with the alias
\* gone from the persisted store; when the save fails no vault deletion is
\* requested and the vault is as it was.
C18_RemoveSavesBeforeVault ==
    (cmd.name = "remove")
        => /\ (vaultDelete # "none"
                 => /\ saved = "ok"
                    /\ diskValid
                    /\ cmd.alias \notin DOMAIN disk)
           /\ (pc = "cmd_done" /\ vaultDelete = "failed"
                 => /\ cmdResult = "VaultError"
                    /\ cmd.alias \in DOMAIN disk0
                    /\ disk = MapRemove(disk0, cmd.alias)
                    /\ vault = vault0)
           /\ (pc = "cmd_done" /\ saved = "failed"
                 => /\ cmdResult = "SaveFailed"
                    /\ vaultDelete = "none"
                    /\ vault = vault0)

C18_Witness ==
    /\ pc = "cmd_done"
    /\ cmd.name = "remove"
    /\ vaultDelete = "failed"
    /\ cmd.alias \in DOMAIN vault
    /\ cmd.alias \in DOMAIN disk0
    /\ cmd.alias \notin DOMAIN disk
    /\ cmdResult = "VaultError"

\* C19: every iteration of the shell loop runs the output phase after the
\* input phase: whatever the input phase handled, the step that ends it
\* either starts the drain of the channel or returns a fatal error; it
\* never leads back to the input poll.
C19_OutputPhaseEveryIteration ==
    [][pc = "poll" => pc' \in {"read", "done"}]_vars

LoopFatalErrors ==
    {"PollError", "ChannelWriteError", "ChannelFlushError", "ResizeError",
     "DisplayWriteError", "DisplayFlushError"}

\* C20: the shell loop is left only by a zero-length channel read, by a
\* channel read error, or by the return of a failed I/O operation: a
\* would-block on a channel read leads back to the input poll, and no key,
\* resize or other event that was handled without error ends the loop.
C20_LoopEndsOnlyOnEofOrError ==
    [][(pc \in {"poll", "read"} /\ pc' \notin {"poll", "read"})
          => \/ /\ pc = "read"
                /\ pc' = "exit"
                /\ exitCause' \in {"eof", "read_error"}
             \/ /\ pc' = "done"
                /\ shellResult' \in LoopFatalErrors]_vars

C20_Witness ==
    /\ pc = "poll"
    /\ event.type = "Resize"
    /\ Len(display) >= 1
    /\ exitCause = "none"
    /\ shellResult = "none"

\* C21: session building stops at the first failed step: with the alias
\* absent it returns AliasNotFound, with a stored connection string that is
\* not well formed it returns InvalidConnectionString, in both cases with
\* no TCP connection ever opened; and the vault is neither read nor
\* written and nothing is prompted for unless the TCP connection is open
\* and the handshake has succeeded.
C21_StepsInOrder ==
    /\ [](/\ (alias \notin DOMAIN config)
               => /\ tcp = "none"
                  /\ (pc = "done" => sessResult = "AliasNotFound")
          /\ (alias \in DOMAIN config /\ ~WellFormed(config[alias]))
               => /\ tcp = "none"
                  /\ (pc = "done" => sessResult = "InvalidConnectionString"))
    /\ [][(\/ prompts' # prompts
           \/ vaultWrites' # vaultWrites
           \/ vault' # vault
           \/ password' # password)
             => /\ tcp = "open"
                /\ sess \in {"handshaken", "authed"}]_vars

\* C22: over runs of add, remove and connect, a password authentication
\* that sends a secret read from the keychain (no password was prompted
\* for in that run) goes to the user and host for which that secret was
\* entered.
C22_VaultSecretOnlyToItsTarget ==
    \A i \in 1..Len(authLog) :
        (/\ authLog[i].method = "password"
         /\ PromptCount("password") = 0
         /\ alias \in DOMAIN enteredFor)
            => enteredFor[alias] = [user |-> authLog[i].user,
                                    host |-> authLog[i].peer]

\* C23: the destination file of a transfer is created, truncated or
\* written only by the create and copy steps and only once the source is
\* open; a transfer that failed to open its source, to read its size or to
\* open the SFTP subsystem has created no destination and written nothing.
C23_DestinationOnlyAfterSourceOpen ==
    /\ [][dest' # dest
            => /\ srcOpen
               /\ pc \in {"u_create", "d_create", "copy"}]_vars
    /\ []((/\ pc = "done"
           /\ xferResult \in {"OpenFailed", "MetadataFailed", "StatFailed",
                              "SftpFailed"})
             => /\ destPath = <<>>
                /\ wrote = <<>>)

C23_Witness ==
    /\ pc = "done"
    /\ xfer = "download"
    /\ xferResult = "OpenFailed"
    /\ ~srcOpen
    /\ dirMade
    /\ dest = OldFile

====
